---- MODULE Spec2Model ----
(***************************************************************************)
(* State-machine model of the luxury_house data pipeline:                  *)
(*   - HousingDataCleaner (src/housing_data_cleaner.py): CSV load, schema  *)
(*     mapping, and the five-stage clean_data pipeline;                    *)
(*   - HousingDataLoader (src/data_loader.py): schema mapping, the per-row *)
(*     derivation functions used by insert_data, and the connections main  *)
(*     opens and closes.                                                   *)
(*                                                                         *)
(* Spec is the cleaner followed by the loader's mapping, and the loader's  *)
(* derivations; PriceSpec is the cleaner on longer price-only files;       *)
(* MainSpec is the loader's main, with the housing_data table and the     *)
(* transaction of insert_data.                                             *)
(*                                                                         *)
(* Text is a sequence of one-character strings, so that case folding,      *)
(* substring search and the regular expressions of the source are computed *)
(* character by character.  A cell of a table is a record                  *)
(*   [k |-> kind, n |-> number, s |-> text]                                *)
(* with kind "null" (NaN/None), "int", "float", "inf" or "str"; numbers    *)
(* are fixed-point with Decimals fractional digits (n = value * Scale).    *)
(*                                                                         *)
(* pandas semantics assumed: the pre-copy-on-write behaviour the source    *)
(* relies on, where  df[col].fillna(v, inplace=True)  writes through to    *)
(* the frame.                                                              *)
(*                                                                         *)
(* MySQL semantics assumed: a transactional housing_data table (InnoDB,    *)
(* the server default) and the connector's default autocommit = False, so  *)
(* that executed statements become durable at connection.commit() only     *)
(* and are discarded when the connection is closed before it.              *)
(***************************************************************************)
EXTENDS Integers, Sequences, FiniteSets, TLC

VARIABLES
  pc,               \* "new", "cleaning", "done", "analyzed" or "derived";
                    \* in the loader's main: "main", "m_load", "m_create",
                    \* "m_insert", "m_rows", "m_summary", "m_sample", "m_finally", "m_exit"
  file,             \* the CSV file the cleaner was constructed on
  df,               \* HousingDataCleaner.df, the Working Table
  column_map,       \* HousingDataCleaner.column_map, the Schema Map
  cleaning_report,  \* HousingDataCleaner.cleaning_report
  step,             \* index into cleaning_steps of the next stage to run
  raised,           \* history: per stage run, its name and what it raised
  loader_map,       \* HousingDataLoader.column_map
  call,             \* the derived fields insert_data computed for one row
  db                \* HousingDataLoader.connection and the connections made,
                    \* the housing_data table and the load in progress

vars == <<pc, file, df, column_map, cleaning_report, step, raised, loader_map, call, db>>

\* ------------------------------------------------------------------ bounds
\* Largest number of data rows of an input CSV.
MaxRows == 2
\* Largest number of header names of a header-only input CSV.
MaxCols == 2
\* Fractional decimal digits kept by the fixed-point numbers.
Decimals == 2
\* Largest number of data rows of a price-only input CSV.
MaxPriceRows == 4
MaxBatches == 2
MaxExisting == 1

RECURSIVE Pow10(_)
Pow10(k) == IF k = 0 THEN 1 ELSE 10 * Pow10(k - 1)

Scale == Pow10(Decimals)

\* ------------------------------------------------------------ characters
Lowers == <<"a","b","c","d","e","f","g","h","i","j","k","l","m",
            "n","o","p","q","r","s","t","u","v","w","x","y","z">>
Uppers == <<"A","B","C","D","E","F","G","H","I","J","K","L","M",
            "N","O","P","Q","R","S","T","U","V","W","X","Y","Z">>
DigitChars == <<"0","1","2","3","4","5","6","7","8","9">>

Range(f) == {f[i] : i \in DOMAIN f}

IsLower(c) == c \in Range(Lowers)
IsUpper(c) == c \in Range(Uppers)
IsLetter(c) == IsLower(c) \/ IsUpper(c)
IsDigit(c) == c \in Range(DigitChars)
\* "Rupee" stands for the one character U+20B9.
IsCurrency(c) == c \in {"Rupee", "$", ","}
IsSpace(c) == c = " "

IndexIn(seq, c) == CHOOSE i \in DOMAIN seq : seq[i] = c
DigitVal(c) == IndexIn(DigitChars, c) - 1

\* str.upper / str.lower on one character
UpperChar(c) == IF IsLower(c) THEN Uppers[IndexIn(Lowers, c)] ELSE c
LowerChar(c) == IF IsUpper(c) THEN Lowers[IndexIn(Uppers, c)] ELSE c

\* Code-point order of the characters the inputs use (ASCII order).
CharOrder == <<" ", "$", "+", ",", "-", ".">> \o DigitChars \o Uppers
             \o <<"_">> \o Lowers \o <<"Rupee">>
Ord(c) == IndexIn(CharOrder, c)

\* ------------------------------------------------------------------ text
Upper(s) == [i \in DOMAIN s |-> UpperChar(s[i])]
Lower(s) == [i \in DOMAIN s |-> LowerChar(s[i])]

\* str.title(): a cased character is upper-cased when the character before
\* it is not cased, lower-cased otherwise.
Title(s) ==
  [i \in DOMAIN s |->
     IF i > 1 /\ IsLetter(s[i - 1]) THEN LowerChar(s[i]) ELSE UpperChar(s[i])]

RECURSIVE LStrip(_)
LStrip(s) == IF s # <<>> /\ IsSpace(Head(s)) THEN LStrip(Tail(s)) ELSE s

RECURSIVE RStrip(_)
RStrip(s) ==
  IF s # <<>> /\ IsSpace(s[Len(s)]) THEN RStrip(SubSeq(s, 1, Len(s) - 1)) ELSE s

\* str.strip()
Strip(s) == RStrip(LStrip(s))

\* pat occurs in s starting at position i
MatchAt(s, i, pat) ==
  /\ i >= 1
  /\ i + Len(pat) - 1 <= Len(s)
  /\ \A j \in 1..Len(pat) : s[i + j - 1] = pat[j]

\* Python's  pat in s
Contains(s, pat) == \E i \in 1..(Len(s) + 1) : MatchAt(s, i, pat)

\* Lexicographic order of texts by code point (Python str <).
RECURSIVE TextLess(_, _)
TextLess(a, b) ==
  IF b = <<>> THEN FALSE
  ELSE IF a = <<>> THEN TRUE
  ELSE IF Head(a) = Head(b) THEN TextLess(Tail(a), Tail(b))
  ELSE Ord(Head(a)) < Ord(Head(b))

\* Character classes of the price-cleaning patterns.
InClass(c, class) ==
  CASE class = "currency" -> IsCurrency(c)
    [] class = "space"    -> IsSpace(c)
    [] class = "letter"   -> IsLetter(c)

\* Removal of every character of a class: re.sub('[class]', '', s)
RECURSIVE RemoveChars(_, _)
RemoveChars(s, class) ==
  IF s = <<>> THEN <<>>
  ELSE IF InClass(Head(s), class) THEN RemoveChars(Tail(s), class)
  ELSE <<Head(s)>> \o RemoveChars(Tail(s), class)

\* re.sub(word + '\.?', '', s, flags=re.IGNORECASE) for a literal lower-case
\* word: every leftmost non-overlapping occurrence, with a following period.
RECURSIVE RemoveUnit(_, _)
RemoveUnit(s, word) ==
  IF s = <<>> THEN <<>>
  ELSE IF MatchAt(Lower(s), 1, word)
       THEN LET n == IF Len(s) > Len(word) /\ s[Len(word) + 1] = "."
                     THEN Len(word) + 1 ELSE Len(word)
            IN  RemoveUnit(SubSeq(s, n + 1, Len(s)), word)
       ELSE <<Head(s)>> \o RemoveUnit(Tail(s), word)

\* ---------------------------------------------------------------- cells
Null == [k |-> "null", n |-> 0, s |-> <<>>]
IntV(i) == [k |-> "int", n |-> i * Scale, s |-> <<>>]
FloatN(n) == [k |-> "float", n |-> n, s |-> <<>>]
Str(t) == [k |-> "str", n |-> 0, s |-> t]
Inf(sign) == [k |-> "inf", n |-> sign, s |-> <<>>]

IsNull(v) == v.k = "null"
IsNum(v) == v.k \in {"int", "float"}

\* ------------------------------------------------------------- numbers
RECURSIVE DigitsVal(_)
DigitsVal(ds) ==
  IF ds = <<>> THEN 0 ELSE 10 * DigitsVal(SubSeq(ds, 1, Len(ds) - 1)) + DigitVal(ds[Len(ds)])

AllDigits(ds) == \A i \in DOMAIN ds : IsDigit(ds[i])

\* The fraction digits fs as a number of 1/Scale units (digits beyond
\* Decimals are dropped).
FracVal(fs) ==
  LET kept == SubSeq(fs, 1, IF Len(fs) < Decimals THEN Len(fs) ELSE Decimals)
  IN  DigitsVal(kept) * Pow10(Decimals - Len(kept))

\* Parse of an unsigned decimal literal: digits, optionally a period and
\* more digits, at least one digit in all.  Null when s is no number.
ParseUnsigned(s) ==
  IF \E i \in DOMAIN s : s[i] = "."
  THEN LET p  == CHOOSE i \in DOMAIN s : s[i] = "." /\ \A j \in 1..(i - 1) : s[j] # "."
           ip == SubSeq(s, 1, p - 1)
           fp == SubSeq(s, p + 1, Len(s))
       IN  IF AllDigits(ip) /\ AllDigits(fp) /\ Len(ip) + Len(fp) > 0
           THEN FloatN(DigitsVal(ip) * Scale + FracVal(fp))
           ELSE Null
  ELSE IF s # <<>> /\ AllDigits(s) THEN IntV(DigitsVal(s)) ELSE Null

\* Parse of one text as a number, as pandas' numeric parsers do for plain
\* decimal literals: an optional sign, then an unsigned literal.
ParseNumber(s) ==
  IF s # <<>> /\ Head(s) \in {"-", "+"}
  THEN LET u == ParseUnsigned(Tail(s))
       IN  IF IsNull(u) \/ Head(s) = "+" THEN u ELSE [u EXCEPT !.n = 0 - u.n]
  ELSE ParseUnsigned(s)

RECURSIVE NatDigits(_)
NatDigits(i) ==
  IF i < 10 THEN <<DigitChars[i + 1]>>
  ELSE NatDigits(i \div 10) \o <<DigitChars[(i % 10) + 1]>>

\* The fraction f (0 <= f < Scale) as exactly Decimals digits.
RECURSIVE FracDigits(_, _)
FracDigits(f, k) ==
  IF k = 0 THEN <<>> ELSE FracDigits(f \div 10, k - 1) \o <<DigitChars[(f % 10) + 1]>>

RECURSIVE TrimZeros(_)
TrimZeros(ds) ==
  IF Len(ds) > 1 /\ ds[Len(ds)] = "0" THEN TrimZeros(SubSeq(ds, 1, Len(ds) - 1)) ELSE ds

Abs(i) == IF i < 0 THEN 0 - i ELSE i

\* str(x) of one cell, as Series.astype(str) does: 2 -> "2", 2.0 -> "2.0",
\* 2.5 -> "2.5", NaN -> "nan", text unchanged.
AsStr(v) ==
  CASE v.k = "str"   -> v.s
    [] v.k = "null"  -> <<"n", "a", "n">>
    [] v.k = "inf"   -> IF v.n < 0 THEN <<"-", "i", "n", "f">> ELSE <<"i", "n", "f">>
    [] v.k = "int"   -> (IF v.n < 0 THEN <<"-">> ELSE <<>>) \o NatDigits(Abs(v.n) \div Scale)
    [] v.k = "float" -> (IF v.n < 0 THEN <<"-">> ELSE <<>>)
                        \o NatDigits(Abs(v.n) \div Scale) \o <<".">>
                        \o TrimZeros(FracDigits(Abs(v.n) % Scale, Decimals))

\* ---------------------------------------------------------------- tables
\* A table (DataFrame) is [columns |-> sequence of names, rows |-> sequence
\* of rows], a row being a function from the column names to cells.
Cols(d) == Range(d.columns)
NRows(d) == Len(d.rows)
ColVals(d, c) == [i \in 1..NRows(d) |-> d.rows[i][c]]

\* df[c] = vals : overwrite column c, or append it as a new last column.
SetCol(d, c, vals) ==
  [columns |-> IF c \in Cols(d) THEN d.columns ELSE Append(d.columns, c),
   rows    |-> [i \in 1..NRows(d) |->
                  [x \in Cols(d) \cup {c} |->
                     IF x = c THEN vals[i] ELSE d.rows[i][x]]]]

\* Series.dtype as far as the source consults it.  A header-only CSV gives
\* object columns.
DType(d, c) ==
  IF NRows(d) = 0 THEN "object"
  ELSE IF \A i \in 1..NRows(d) : d.rows[i][c].k = "int" THEN "int64"
  ELSE IF \A i \in 1..NRows(d) : d.rows[i][c].k \in {"float", "null", "inf"} THEN "float64"
  ELSE "object"

NullCount(d, c) == Cardinality({i \in 1..NRows(d) : IsNull(d.rows[i][c])})

\* Series.fillna(v): every null cell becomes v, no other cell changes.
FillNa(vals, v) == [i \in DOMAIN vals |-> IF IsNull(vals[i]) THEN v ELSE vals[i]]

\* Order of two cells of one kind of column: numbers by value, text by code
\* point.
CellLess(a, b) ==
  IF a.k = "str" /\ b.k = "str" THEN TextLess(a.s, b.s) ELSE a.n < b.n

\* Series.mean() in the place of the median: nulls skipped, NaN when no value
\* is left.
RECURSIVE SumFrom(_, _)
SumFrom(vals, i) ==
  IF i > Len(vals) THEN 0
  ELSE (IF IsNum(vals[i]) THEN vals[i].n ELSE 0) + SumFrom(vals, i + 1)

MeanOf(vals) ==
  LET cnt == Cardinality({i \in DOMAIN vals : IsNum(vals[i])})
  IN  IF cnt = 0 THEN Null ELSE FloatN(SumFrom(vals, 1) \div cnt)

\* Series.median(): nulls skipped; the middle value, or the mean of the two
\* middle values; NaN when no value is left.
Median(vals) ==
  LET idx  == {i \in DOMAIN vals : IsNum(vals[i])}
      cnt  == Cardinality(idx)
      \* the k-th smallest value (1-based)
      Kth(k) == LET i == CHOOSE i \in idx :
                           /\ Cardinality({j \in idx : vals[j].n < vals[i].n}) < k
                           /\ Cardinality({j \in idx : vals[j].n <= vals[i].n}) >= k
                IN  vals[i].n
  IN  IF cnt = 0 THEN Null
      ELSE IF cnt % 2 = 1 THEN FloatN(Kth((cnt + 1) \div 2))
      ELSE FloatN((Kth(cnt \div 2) + Kth(cnt \div 2 + 1)) \div 2)

\* Series.mode(): the most frequent non-null values, sorted; <<>> when the
\* column has no non-null value.  Only its first element is used.
ModeFirst(vals) ==
  LET idx     == {i \in DOMAIN vals : ~IsNull(vals[i])}
      Freq(i) == Cardinality({j \in idx : vals[j] = vals[i]})
      top     == {i \in idx : \A j \in idx : Freq(j) <= Freq(i)}
  IN  IF idx = {} THEN Null
      ELSE vals[CHOOSE i \in top : \A j \in top : ~CellLess(vals[j], vals[i])]

\* --------------------------------------------------------------- loading
\* pd.read_csv on a file with header columns and text cells (<<>> is an
\* empty cell): an empty cell is NaN; a column whose non-empty cells are all
\* numbers becomes numeric (int64 when it has no empty cell and no decimal
\* point, float64 otherwise); any other column keeps its text.
LoadColumn(texts) ==
  LET parsed   == [i \in DOMAIN texts |-> ParseNumber(texts[i])]
      numeric  == \A i \in DOMAIN texts : texts[i] = <<>> \/ ~IsNull(parsed[i])
      integral == \A i \in DOMAIN texts : parsed[i].k = "int"
  IN  [i \in DOMAIN texts |->
         IF texts[i] = <<>> THEN Null
         ELSE IF ~numeric THEN Str(texts[i])
         ELSE IF integral THEN parsed[i]
         ELSE FloatN(parsed[i].n)]

ReadCsv(csv) ==
  LET n == Len(csv.rows)
      col(c) == LoadColumn([i \in 1..n |-> csv.rows[i][c]])
  IN  [columns |-> csv.columns,
       rows    |-> [i \in 1..n |-> [c \in Range(csv.columns) |-> col(c)[i]]]]

\* --------------------------------------------------------- schema mapping
\* The alias table of HousingDataCleaner._identify_columns, in dict order.
column_mapping ==
  << [name |-> "price",
      aliases |-> <<"Ticket_Price_Cr", "Price", "price", "ticket_price", "Price_Cr">>],
     [name |-> "amenity",
      aliases |-> <<"Amenity_Score", "Amenity", "amenity_score", "AmenityScore">>],
     [name |-> "configuration",
      aliases |-> <<"Configuration", "configuration", "config", "BHK">>],
     [name |-> "micro_market",
      aliases |-> <<"Micro_Market", "micro_market", "Location", "Area", "Market">>],
     [name |-> "builder",
      aliases |-> <<"Builder", "builder", "Developer", "developer">>],
     [name |-> "booking_status",
      aliases |-> <<"Booking_Status", "booking_status", "Status", "status", "Booking">>],
     [name |-> "purchase_quarter",
      aliases |-> <<"Purchase_Quarter", "purchase_quarter", "Quarter", "quarter",
                    "Time_Period">>] >>

\* The alias table of HousingDataLoader.analyze_data_structure.
loader_column_mapping ==
  << [name |-> "price",
      aliases |-> <<"Ticket_Price_Cr", "Price", "price", "ticket_price", "Price_Cr",
                    "price_cr">>],
     [name |-> "amenity",
      aliases |-> <<"Amenity_Score", "Amenity", "amenity_score", "AmenityScore",
                    "amenity">>],
     [name |-> "configuration",
      aliases |-> <<"Configuration", "configuration", "config", "BHK", "bhk",
                    "unit_type">>],
     [name |-> "micro_market",
      aliases |-> <<"Micro_Market", "micro_market", "Location", "Area", "Market",
                    "location", "area">>],
     [name |-> "builder",
      aliases |-> <<"Builder", "builder", "Developer", "developer", "builder_name">>],
     [name |-> "booking_status",
      aliases |-> <<"Booking_Status", "booking_status", "Status", "status", "Booking",
                    "booking">>],
     [name |-> "purchase_quarter",
      aliases |-> <<"Purchase_Quarter", "purchase_quarter", "Quarter", "quarter",
                    "Time_Period", "period">>],
     [name |-> "project_id",
      aliases |-> <<"Project_ID", "project_id", "ID", "id", "Property_ID">>] >>

\* The loop without its break: the last alias present wins.
LastPresent(aliases, available) ==
  LET hits == {i \in DOMAIN aliases : aliases[i] \in available}
  IN  IF hits = {} THEN ""
      ELSE aliases[CHOOSE i \in hits : \A j \in hits : i >= j]

\* The inner loop with its break: the first alias, in list order, that is
\* among the available columns; "" when there is none.
FirstPresent(aliases, available) ==
  LET hits == {i \in DOMAIN aliases : aliases[i] \in available}
  IN  IF hits = {} THEN ""
      ELSE aliases[CHOOSE i \in hits : \A j \in hits : i <= j]

\* The outer loop: the Schema Map, a function from the canonical fields that
\* have an alias present to the column bound.
BuildColumnMap(mapping, available) ==
  LET bound == {i \in DOMAIN mapping : FirstPresent(mapping[i].aliases, available) # ""}
  IN  [f \in {mapping[i].name : i \in bound} |->
         FirstPresent(mapping[CHOOSE i \in bound : mapping[i].name = f].aliases,
                      available)]

\* HousingDataCleaner.get_column: the bound column, "" for None.
GetColumn(cmap, standard_name) ==
  IF standard_name \in DOMAIN cmap THEN cmap[standard_name] ELSE ""

\* ------------------------------------------------------- price cleaning
\* The five substitutions of price_cleaning_patterns, in order.
CleanPriceText(s) ==
  LET s1 == RemoveChars(s, "currency")
      s2 == RemoveUnit(s1, <<"c", "r">>)
      s3 == RemoveUnit(s2, <<"l", "a", "c">>)
      s4 == RemoveChars(s3, "space")
  IN  RemoveChars(s4, "letter")

\* pd.to_numeric(errors='coerce') on a column of texts: a text that is no
\* number becomes NaN; the column is int64 only when every cell is an
\* integer.
ToNumeric(texts) ==
  LET parsed   == [i \in DOMAIN texts |-> ParseNumber(texts[i])]
      integral == \A i \in DOMAIN texts : parsed[i].k = "int"
  IN  [i \in DOMAIN texts |->
         IF integral \/ IsNull(parsed[i]) THEN parsed[i] ELSE FloatN(parsed[i].n)]

\* HousingDataCleaner.clean_price_column.  A stage yields the table it
\* leaves behind and the text of the exception it raised ("" for none).
clean_price_column(d, cmap) ==
  LET price_col       == GetColumn(cmap, "price")
      original_prices == ColVals(d, price_col)
      cleaned         == [i \in 1..NRows(d) |-> CleanPriceText(AsStr(original_prices[i]))]
      numeric         == ToNumeric(cleaned)
      price_median    == Median(numeric)
      filled          == FillNa(numeric, price_median)
      d1              == SetCol(d, price_col, filled)
  IN  IF price_col = "" THEN [df |-> d, err |-> ""]
      ELSE IF price_col # "Ticket_Price_Cr"
           THEN [df  |-> SetCol(SetCol(d1, "Ticket_Price_Cr", filled),
                                "original_" \o price_col, original_prices),
                 err |-> ""]
           ELSE [df |-> d1, err |-> ""]

\* ------------------------------------------------------- missing values
TypeErrorText == "could not convert string to float"

\* One iteration of the loop over column_map.items().
ImputeMapped(d, standard_name, actual_name) ==
  LET vals == ColVals(d, actual_name)
  IN  IF NullCount(d, actual_name) = 0 THEN [df |-> d, err |-> ""]
      ELSE IF standard_name \in {"price", "amenity"}
           THEN IF DType(d, actual_name) = "object"
                THEN [df |-> d, err |-> TypeErrorText]    \* Series.median() of text
                ELSE [df |-> SetCol(d, actual_name, FillNa(vals, Median(vals))), err |-> ""]
      ELSE IF standard_name = "booking_status"
           THEN [df |-> SetCol(d, actual_name,
                               FillNa(vals, Str(<<"N","o","t"," ","B","o","o","k","e","d">>))),
                 err |-> ""]
      ELSE IF ~IsNull(ModeFirst(vals))
           THEN [df |-> SetCol(d, actual_name, FillNa(vals, ModeFirst(vals))), err |-> ""]
           ELSE [df |-> SetCol(d, actual_name,
                               FillNa(vals, Str(<<"U","n","k","n","o","w","n">>))),
                 err |-> ""]

\* The loop over column_map.items(), from the i-th entry of the alias table
\* on (a dict iterates in insertion order); it stops at the first exception.
RECURSIVE ImputeMappedFrom(_, _, _)
ImputeMappedFrom(d, cmap, i) ==
  IF i > Len(column_mapping) THEN [df |-> d, err |-> ""]
  ELSE LET f == column_mapping[i].name
       IN  IF f \notin DOMAIN cmap \/ cmap[f] \notin Cols(d)
           THEN ImputeMappedFrom(d, cmap, i + 1)
           ELSE LET r == ImputeMapped(d, f, cmap[f])
                IN  IF r.err # "" THEN r ELSE ImputeMappedFrom(r.df, cmap, i + 1)

\* Rows holding a null in col dropped (dropna) instead of filled.
ImputeOtherDropna(d, col) ==
  LET keep == {i \in 1..NRows(d) : ~IsNull(d.rows[i][col])}
      RECURSIVE Kept(_)
      Kept(i) == IF i > NRows(d) THEN <<>>
                 ELSE (IF i \in keep THEN <<d.rows[i]>> ELSE <<>>) \o Kept(i + 1)
  IN  [columns |-> d.columns, rows |-> Kept(1)]

\* One iteration of the loop over the columns outside the Schema Map.
ImputeOther(d, col) ==
  LET vals == ColVals(d, col)
  IN  IF NullCount(d, col) = 0 THEN d
      ELSE IF DType(d, col) \in {"float64", "int64"}
           THEN SetCol(d, col, FillNa(vals, Median(vals)))
           ELSE SetCol(d, col, FillNa(vals, Str(<<"U","n","k","n","o","w","n">>)))

RECURSIVE ImputeOthersFrom(_, _, _)
ImputeOthersFrom(d, cmap, i) ==
  IF i > Len(d.columns) THEN d
  ELSE IF d.columns[i] \in Range(cmap)
       THEN ImputeOthersFrom(d, cmap, i + 1)
       ELSE ImputeOthersFrom(ImputeOther(d, d.columns[i]), cmap, i + 1)

\* HousingDataCleaner.handle_missing_values
handle_missing_values(d, cmap) ==
  LET r == ImputeMappedFrom(d, cmap, 1)
  IN  IF r.err # "" THEN r
      ELSE [df |-> ImputeOthersFrom(r.df, cmap, 1), err |-> ""]

\* --------------------------------------------------- text normalization
\* re.sub(r'(\d)\s*BHK', r'\1BHK', s): the white space between a digit and
\* BHK is removed, at every leftmost non-overlapping match.
RECURSIVE SkipSpaces(_, _)
SkipSpaces(s, i) == IF i <= Len(s) /\ IsSpace(s[i]) THEN SkipSpaces(s, i + 1) ELSE i

RECURSIVE NormalizeBhk(_)
NormalizeBhk(s) ==
  IF s = <<>> THEN <<>>
  ELSE LET j == SkipSpaces(s, 2)
       IN  IF IsDigit(Head(s)) /\ MatchAt(s, j, <<"B", "H", "K">>)
           THEN <<Head(s), "B", "H", "K">> \o NormalizeBhk(SubSeq(s, j + 3, Len(s)))
           ELSE <<Head(s)>> \o NormalizeBhk(Tail(s))

text_columns == <<"configuration", "micro_market", "builder", "booking_status">>

NormalizeCell(std_name, v) ==
  LET base == Strip(Title(AsStr(v)))
  IN  IF std_name = "configuration" THEN Str(NormalizeBhk(Upper(base))) ELSE Str(base)

RECURSIVE NormalizeFrom(_, _, _)
NormalizeFrom(d, cmap, i) ==
  IF i > Len(text_columns) THEN d
  ELSE LET actual_name == GetColumn(cmap, text_columns[i])
       IN  IF actual_name # "" /\ actual_name \in Cols(d)
           THEN NormalizeFrom(
                  SetCol(d, actual_name,
                         [r \in 1..NRows(d) |->
                            NormalizeCell(text_columns[i], d.rows[r][actual_name])]),
                  cmap, i + 1)
           ELSE NormalizeFrom(d, cmap, i + 1)

\* HousingDataCleaner.normalize_text_fields
normalize_text_fields(d, cmap) == [df |-> NormalizeFrom(d, cmap, 1), err |-> ""]

\* --------------------------------------------------- feature engineering
T_BHK(d) == <<d, "B", "H", "K">>
T_STUDY(d) == <<d, "B", "H", "K", "+", "S", "T", "U", "D", "Y">>

\* area_map of HousingDataLoader.calculate_carpet_area, in dict order.
loader_area_map ==
  << [pattern |-> T_BHK("1"), area |-> 650],
     [pattern |-> T_BHK("2"), area |-> 950],
     [pattern |-> T_BHK("3"), area |-> 1250],
     [pattern |-> T_BHK("4"), area |-> 1600],
     [pattern |-> T_BHK("5"), area |-> 2100],
     [pattern |-> <<"S", "T", "U", "D", "I", "O">>, area |-> 400],
     [pattern |-> <<"1", "R", "K">>, area |-> 350],
     [pattern |-> T_STUDY("2"), area |-> 1100],
     [pattern |-> T_STUDY("3"), area |-> 1400],
     [pattern |-> T_STUDY("4"), area |-> 1800] >>

\* area_map of HousingDataCleaner.create_new_features: the same entries and
\* 'UNKNOWN': 1000.
area_map ==
  loader_area_map \o << [pattern |-> <<"U", "N", "K", "N", "O", "W", "N">>, area |-> 1000] >>

\* Series.map(area_map) on one cell: the area of the key equal to the cell,
\* NaN when no key is.
MapArea(v) ==
  LET hits == {i \in DOMAIN area_map : v.k = "str" /\ area_map[i].pattern = v.s}
  IN  IF hits = {} THEN Null ELSE IntV(area_map[CHOOSE i \in hits : TRUE].area)

\* A numeric column holding a NaN or a float is float64.
Unify(vals) ==
  IF \E i \in DOMAIN vals : vals[i].k \in {"null", "float"}
  THEN [i \in DOMAIN vals |-> IF vals[i].k = "int" THEN FloatN(vals[i].n) ELSE vals[i]]
  ELSE vals

booked_statuses ==
  { <<"b","o","o","k","e","d">>, <<"c","o","n","f","i","r","m","e","d">>,
    <<"s","o","l","d">>, <<"y","e","s">> }

\* The lambda of step 1.
BookingFlagOf(v) == IF Lower(AsStr(v)) \in booked_statuses THEN IntV(1) ELSE IntV(0)

DigitsAt(s, i, n) ==
  /\ i >= 1
  /\ i + n - 1 <= Len(s)
  /\ \A j \in i..(i + n - 1) : IsDigit(s[j])

IsSep(s, i) == i <= Len(s) /\ s[i] \in {"_", "-"}

\* r'Q(\d)[_\-]?(\d{4})' matched at position i: the position of the year's
\* first digit, 0 when there is no match at i.
QYearAt(s, i) ==
  IF i + 1 <= Len(s) /\ s[i] = "Q" /\ IsDigit(s[i + 1])
  THEN IF IsSep(s, i + 2) /\ DigitsAt(s, i + 3, 4) THEN i + 3
       ELSE IF DigitsAt(s, i + 2, 4) THEN i + 2
       ELSE 0
  ELSE 0

\* re.search of that pattern: <<quarter, year>> of the leftmost match, <<>>
\* when there is none.
SearchQY(s) ==
  LET hits == {i \in DOMAIN s : QYearAt(s, i) # 0}
  IN  IF hits = {} THEN <<>>
      ELSE LET i == CHOOSE i \in hits : \A j \in hits : i <= j
               y == QYearAt(s, i)
           IN  <<DigitVal(s[i + 1]), DigitsVal(SubSeq(s, y, y + 3))>>

\* r'(\d{4})[_\-]?Q(\d)' matched at position i: the position of the Q, 0
\* when there is no match at i.
YearQAt(s, i) ==
  IF DigitsAt(s, i, 4)
  THEN IF IsSep(s, i + 4) /\ i + 6 <= Len(s) /\ s[i + 5] = "Q" /\ IsDigit(s[i + 6])
       THEN i + 5
       ELSE IF i + 5 <= Len(s) /\ s[i + 4] = "Q" /\ IsDigit(s[i + 5]) THEN i + 4
       ELSE 0
  ELSE 0

SearchYQ(s) ==
  LET hits == {i \in DOMAIN s : YearQAt(s, i) # 0}
  IN  IF hits = {} THEN <<>>
      ELSE LET i == CHOOSE i \in hits : \A j \in hits : i <= j
           IN  <<DigitVal(s[YearQAt(s, i) + 1]), DigitsVal(SubSeq(s, i, i + 3))>>

\* re.search(r'(\d{4})', s): the year of the leftmost match, <<>> for none.
SearchYear(s) ==
  LET hits == {i \in DOMAIN s : DigitsAt(s, i, 4)}
  IN  IF hits = {} THEN <<>>
      ELSE LET i == CHOOSE i \in hits : \A j \in hits : i <= j
           IN  <<DigitsVal(SubSeq(s, i, i + 3))>>

\* Series.str.extract(quarter_year_pattern) on one cell of an object column:
\* the two groups, or NaN for a cell that is no text or has no match.
ExtractQY(v) == IF v.k = "str" THEN SearchQY(v.s) ELSE <<>>

price_labels ==
  << <<"0","-","2","C","r">>, <<"2","-","5","C","r">>, <<"5","-","1","0","C","r">>,
     <<"1","0","-","2","0","C","r">>, <<"2","0","C","r","+">> >>

\* pd.cut(x, bins=[0, 2, 5, 10, 20, inf], labels=price_labels, right=False)
\* on one cell: the label of the bin [lo, hi) holding x, NaN outside all.
CutPrice(v) ==
  IF ~IsNum(v) \/ v.n < 0 THEN Null
  ELSE IF v.n < 2 * Scale THEN Str(price_labels[1])
  ELSE IF v.n < 5 * Scale THEN Str(price_labels[2])
  ELSE IF v.n < 10 * Scale THEN Str(price_labels[3])
  ELSE IF v.n < 20 * Scale THEN Str(price_labels[4])
  ELSE Str(price_labels[5])

season_map ==
  << <<"W","i","n","t","e","r">>, <<"S","p","r","i","n","g">>,
     <<"S","u","m","m","e","r">>, <<"M","o","n","s","o","o","n">> >>

\* Series.map(season_map).fillna('Winter') on one cell.
SeasonOf(v) ==
  IF IsNum(v) /\ v.n \in {q * Scale : q \in 1..4}
  THEN Str(season_map[v.n \div Scale]) ELSE Str(season_map[1])

\* x * m / d, rounded down, without an intermediate product beyond the
\* range of the checker's integers.
MulDiv(x, m, d) == (x \div d) * m + ((x % d) * m) \div d

\* price (in crore) * 10000000, in whole rupees.
Rupees(p) == p.n * (10000000 \div Scale)

\* (price * 10000000) / area on one row of float columns, kept to the whole
\* rupee: NaN propagates, a zero area gives inf (NaN for 0/0).
DividePrice(p, a) ==
  IF IsNull(p) \/ IsNull(a) THEN Null
  ELSE IF a.n = 0
       THEN IF p.n = 0 THEN Null ELSE Inf(IF p.n < 0 THEN -1 ELSE 1)
  ELSE FloatN(MulDiv(Rupees(p), Scale, a.n) * Scale)

AttributeErrorText == "Can only use .str accessor with string values!"
OperandErrorText == "unsupported operand type(s) for /: 'float' and 'str'"
TextOperandErrorText == "unsupported operand type(s) for /: 'str' and 'int'"

\* Step 1: Booking_Flag.
AddBookingFlag(d, cmap) ==
  LET booking_col == GetColumn(cmap, "booking_status")
  IN  IF booking_col # "" /\ booking_col \in Cols(d)
      THEN SetCol(d, "Booking_Flag",
                  [i \in 1..NRows(d) |-> BookingFlagOf(d.rows[i][booking_col])])
      ELSE SetCol(d, "Booking_Flag", [i \in 1..NRows(d) |-> IntV(0)])

\* Step 2: Carpet_Area_Sqft, unless the table has the column already.
AddCarpetArea(d, cmap) ==
  LET config_col == GetColumn(cmap, "configuration")
  IN  IF "Carpet_Area_Sqft" \in Cols(d) THEN d
      ELSE IF config_col # "" /\ config_col \in Cols(d)
           THEN SetCol(d, "Carpet_Area_Sqft",
                       FillNa(Unify([i \in 1..NRows(d) |-> MapArea(d.rows[i][config_col])]),
                              FloatN(1000 * Scale)))
           ELSE SetCol(d, "Carpet_Area_Sqft", [i \in 1..NRows(d) |-> IntV(1000)])

\* Step 3: Price_per_Sqft.  Dividing by a column that holds text raises, and
\* so does dividing a price column that still holds text (one the price
\* stage did not get to convert).
AddPricePerSqft(d) ==
  IF "Ticket_Price_Cr" \in Cols(d) /\ "Carpet_Area_Sqft" \in Cols(d)
  THEN IF \E i \in 1..NRows(d) : d.rows[i]["Ticket_Price_Cr"].k = "str"
       THEN [df |-> d, err |-> TextOperandErrorText]
       ELSE IF \E i \in 1..NRows(d) : d.rows[i]["Carpet_Area_Sqft"].k = "str"
       THEN [df |-> d, err |-> OperandErrorText]
       ELSE [df  |-> SetCol(d, "Price_per_Sqft",
                            [i \in 1..NRows(d) |->
                               DividePrice(d.rows[i]["Ticket_Price_Cr"],
                                           d.rows[i]["Carpet_Area_Sqft"])]),
             err |-> ""]
  ELSE [df |-> d, err |-> ""]

\* Step 4: Quarter_Number and Year.  The .str accessor of a numeric column
\* raises; an extraction over zero rows is .empty, and so is the alternative
\* one, which leaves both columns uncreated.
AddQuarterYear(d, cmap) ==
  LET quarter_col == GetColumn(cmap, "purchase_quarter")
      extracted   == [i \in 1..NRows(d) |-> ExtractQY(d.rows[i][quarter_col])]
      quarters    == [i \in 1..NRows(d) |->
                        IF extracted[i] = <<>> THEN Null ELSE IntV(extracted[i][1])]
      years       == [i \in 1..NRows(d) |->
                        IF extracted[i] = <<>> THEN Null ELSE IntV(extracted[i][2])]
  IN  IF quarter_col # "" /\ quarter_col \in Cols(d)
      THEN IF DType(d, quarter_col) # "object"
           THEN [df |-> d, err |-> AttributeErrorText]
           ELSE IF NRows(d) # 0
                THEN [df  |-> SetCol(SetCol(d, "Quarter_Number",
                                            FillNa(Unify(quarters), FloatN(1 * Scale))),
                                     "Year", FillNa(Unify(years), FloatN(2023 * Scale))),
                      err |-> ""]
                ELSE [df |-> d, err |-> ""]
      ELSE [df  |-> SetCol(SetCol(d, "Quarter_Number", [i \in 1..NRows(d) |-> IntV(1)]),
                           "Year", [i \in 1..NRows(d) |-> IntV(2023)]),
            err |-> ""]

\* Step 5: Price_Category.
AddPriceCategory(d) ==
  IF "Ticket_Price_Cr" \in Cols(d)
  THEN SetCol(d, "Price_Category",
              [i \in 1..NRows(d) |-> CutPrice(d.rows[i]["Ticket_Price_Cr"])])
  ELSE d

\* Step 6: Season.
AddSeason(d) ==
  IF "Quarter_Number" \in Cols(d)
  THEN SetCol(d, "Season", [i \in 1..NRows(d) |-> SeasonOf(d.rows[i]["Quarter_Number"])])
  ELSE d

\* HousingDataCleaner.create_new_features: the six steps in order; an
\* exception leaves the columns of the steps before it in the table.
create_new_features(d, cmap) ==
  LET d2 == AddCarpetArea(AddBookingFlag(d, cmap), cmap)
      r3 == AddPricePerSqft(d2)
      r4 == AddQuarterYear(r3.df, cmap)
  IN  IF r3.err # "" THEN r3
      ELSE IF r4.err # "" THEN r4
      ELSE [df |-> AddSeason(AddPriceCategory(r4.df)), err |-> ""]

\* ----------------------------------------------------------- validation
\* HousingDataCleaner.validate_data.  The audit is stored in the report, and
\* the summary that follows reads cleaning_report['final_shape'], which
\* clean_data sets only after its loop: a KeyError in a first run.  Of the
\* audit, remaining_nulls is modelled; the dtypes and statistics entries are
\* summaries no later code reads.
validate_data(d, report) ==
  LET nullcols == {c \in Cols(d) : NullCount(d, c) > 0}
      validation_results == [remaining_nulls |-> [c \in nullcols |-> NullCount(d, c)]]
      report1 == ("validation" :> validation_results) @@ report
  IN  [df |-> d, report |-> report1,
       err |-> IF "final_shape" \in DOMAIN report1 THEN "" ELSE "'final_shape'"]

\* ------------------------------------------------------------ clean_data
\* The list with its first two entries exchanged.
cleaning_steps_reordered ==
  <<"missing_values", "price_cleaning", "text_normalization",
    "feature_engineering", "data_validation">>

\* cleaning_steps, in list order.
cleaning_steps ==
  <<"price_cleaning", "missing_values", "text_normalization",
    "feature_engineering", "data_validation">>

\* step_func() of one entry of cleaning_steps.
RunStage(step_name, d, cmap, report) ==
  CASE step_name = "price_cleaning" ->
         [report |-> report] @@ clean_price_column(d, cmap)
    [] step_name = "missing_values" ->
         [report |-> report] @@ handle_missing_values(d, cmap)
    [] step_name = "text_normalization" ->
         [report |-> report] @@ normalize_text_fields(d, cmap)
    [] step_name = "feature_engineering" ->
         [report |-> report] @@ create_new_features(d, cmap)
    [] step_name = "data_validation" -> validate_data(d, report)

\* The body of the try/except of one loop iteration: the report entry of a
\* step that returned, and of one that raised.
StepEntry(initial_rows, r) ==
  IF r.err = ""
  THEN [rows_affected |-> initial_rows - NRows(r.df), status |-> "success"]
  ELSE [rows_affected |-> 0, status |-> "failed: " \o r.err]

Shape(d) == <<NRows(d), Len(d.columns)>>

\* ------------------------------------------------ loader's derivations
loader_booked_statuses ==
  booked_statuses \cup { <<"t","r","u","e">>, <<"1">> }

\* HousingDataLoader.calculate_carpet_area
calculate_carpet_area(configuration) ==
  LET config_upper == Upper(AsStr(configuration))
      hits == {i \in DOMAIN loader_area_map : Contains(config_upper, loader_area_map[i].pattern)}
  IN  IF hits = {} THEN 1000
      ELSE loader_area_map[CHOOSE i \in hits : \A j \in hits : i <= j].area

\* HousingDataLoader.calculate_price_per_sqft (ticket_price a number cell,
\* carpet_area an integer), kept to the whole rupee.
calculate_price_per_sqft(ticket_price, carpet_area) ==
  IF carpet_area > 0
  THEN FloatN((Rupees(ticket_price) \div carpet_area) * Scale)
  ELSE FloatN(0)

\* HousingDataLoader.extract_quarter_year: the three patterns in order.
extract_quarter_year(purchase_quarter) ==
  LET s == AsStr(purchase_quarter)
  IN  IF SearchQY(s) # <<>> THEN SearchQY(s)
      ELSE IF SearchYQ(s) # <<>> THEN SearchYQ(s)
      ELSE IF SearchYear(s) # <<>> THEN <<1, SearchYear(s)[1]>>
      ELSE <<1, 2023>>

\* HousingDataLoader.calculate_booking_flag
calculate_booking_flag(booking_status) ==
  IF Lower(AsStr(booking_status)) \in loader_booked_statuses THEN 1 ELSE 0

\* HousingDataLoader.categorize_price
categorize_price(ticket_price) ==
  IF ticket_price.n <= 2 * Scale THEN price_labels[1]
  ELSE IF ticket_price.n <= 5 * Scale THEN price_labels[2]
  ELSE IF ticket_price.n <= 10 * Scale THEN price_labels[3]
  ELSE IF ticket_price.n <= 20 * Scale THEN price_labels[4]
  ELSE price_labels[5]

\* HousingDataLoader.determine_season
determine_season(quarter_number) ==
  IF quarter_number \in 1..4 THEN season_map[quarter_number] ELSE season_map[1]

\* ---------------------------------------------------------------- inputs
\* Texts the input cells are drawn from.
ConfigTexts ==
  { <<"3", "B", "H", "K">>,
    <<"2", "B", "H", "K", "+", "S", "t", "u", "d", "y">>,
    <<"2", "b", "h", "k">>,
    <<"4", "B", "H", "K", "+", "S", "T", "U", "D", "Y">>,
    <<"S", "t", "u", "d", "i", "o">>,
    <<"1", "R", "K">>,
    <<"V", "i", "l", "l", "a">>,
    <<"3", " ", "B", "h", "k", " ", "F", "l", "a", "t">>,
    <<>> }

QuarterTexts ==
  { <<"Q", "1", "_", "2", "0", "2", "3">>,
    <<"2", "0", "2", "3", "-", "Q", "3">>,
    <<"2", "0", "2", "3">>,
    <<"g", "a", "r", "b", "a", "g", "e">>,
    <<"Q", "2", "-", "2", "0", "2", "2">>,
    <<"Q", "4", "2", "0", "2", "1">>,
    <<"2", "0", "2", "2", "Q", "4">>,
    <<"Q", "1", " ", "2", "0", "2", "4">>,
    <<"q", "3", "_", "2", "0", "2", "1">>,
    <<"Q", "7", "_", "2", "0", "2", "3">>,
    <<>> }

StatusTexts ==
  { <<"B", "O", "O", "K", "E", "D">>,
    <<"p", "e", "n", "d", "i", "n", "g">>,
    <<"1">>,
    <<>>,
    <<"t", "r", "u", "e">>,
    <<"S", "o", "l", "d">>,
    <<"C", "o", "n", "f", "i", "r", "m", "e", "d">>,
    <<"y", "e", "s">>,
    <<" ", "b", "o", "o", "k", "e", "d">>,
    <<"N", "o", "t", " ", "B", "o", "o", "k", "e", "d">> }

PriceTexts ==
  { <<"0">>,
    <<"1", ".", "9">>,
    <<"2">>,
    <<"2", ".", "0", "1">>,
    <<"4", ".", "5">>,
    <<"5">>,
    <<"1", "0">>,
    <<"2", "0">>,
    <<"2", "5">> }

\* Rows of input CSVs, by field; a schema picks the fields a file has and
\* names their columns.  The area field is for files that carry a
\* Carpet_Area_Sqft column of their own.
RowPool ==
  { [price |-> <<"Rupee", "2", ".", "5", " ", "C", "r">>, amenity |-> <<"7", ".", "5">>, config |-> <<"2", "B", "H", "K">>, status |-> <<"B", "o", "o", "k", "e", "d">>, quarter |-> <<"Q", "2", "_", "2", "0", "2", "2">>, notes |-> <<"x">>, area |-> <<"9", "5", "0">>],
    [price |-> <<"b", "a", "d">>, amenity |-> <<>>, config |-> <<"3", "B", "H", "K">>, status |-> <<>>, quarter |-> <<>>, notes |-> <<>>, area |-> <<"0">>],
    [price |-> <<"2">>, amenity |-> <<"8">>, config |-> <<"2", "B", "H", "K", "+", "S", "t", "u", "d", "y">>, status |-> <<"t", "r", "u", "e">>, quarter |-> <<"2", "0", "2", "3", "-", "Q", "3">>, notes |-> <<"o", "k">>, area |-> <<"1", "1", "0", "0">>],
    [price |-> <<"5">>, amenity |-> <<"H", "i", "g", "h">>, config |-> <<"3", " ", "b", "h", "k">>, status |-> <<"1">>, quarter |-> <<"2", "0", "2", "3">>, notes |-> <<>>, area |-> <<"0">>],
    [price |-> <<>>, amenity |-> <<"6">>, config |-> <<"V", "i", "l", "l", "a">>, status |-> <<"S", "O", "L", "D">>, quarter |-> <<"g", "a", "r", "b", "a", "g", "e">>, notes |-> <<"7">>, area |-> <<>>],
    [price |-> <<"2", "0">>, amenity |-> <<"9">>, config |-> <<"s", "t", "u", "d", "i", "o">>, status |-> <<" ", "b", "o", "o", "k", "e", "d">>, quarter |-> <<"2", "0", "2", "2">>, notes |-> <<"3">>, area |-> <<"b", "i", "g">>],
    [price |-> <<"1", ".", "9">>, amenity |-> <<>>, config |-> <<"4", "B", "H", "K", "+", "S", "T", "U", "D", "Y">>, status |-> <<"p", "e", "n", "d", "i", "n", "g">>, quarter |-> <<"Q", "4", "-", "2", "0", "2", "1">>, notes |-> <<"x">>, area |-> <<"1", "8", "0", "0", ".", "5">>],
    [price |-> <<"$", "1", "0">>, amenity |-> <<"5", ".", "5">>, config |-> <<"2", "B", "H", "K", " ", "F", "l", "a", "t">>, status |-> <<"y", "e", "s">>, quarter |-> <<"Q", "2", "_", "2", "0", "2", "2">>, notes |-> <<>>, area |-> <<"0">>],
    [price |-> <<"1", ",", "2", ".", "5", "c", "r", ".">>, amenity |-> <<"4">>, config |-> <<>>, status |-> <<"C", "o", "n", "f", "i", "r", "m", "e", "d">>, quarter |-> <<"Q", "7", "_", "2", "0", "2", "3">>, notes |-> <<"o", "k">>, area |-> <<"6", "5", "0">>] }

Schemas ==
  { <<[header |-> "Price", field |-> "price"], [header |-> "Configuration", field |-> "config"], [header |-> "Status", field |-> "status"], [header |-> "Quarter", field |-> "quarter"]>>,
    <<[header |-> "Ticket_Price_Cr", field |-> "price"], [header |-> "Amenity_Score", field |-> "amenity"], [header |-> "Configuration", field |-> "config"], [header |-> "Booking_Status", field |-> "status"], [header |-> "Purchase_Quarter", field |-> "quarter"], [header |-> "Notes", field |-> "notes"]>>,
    <<[header |-> "Notes", field |-> "notes"]>>,
    <<[header |-> "Configuration", field |-> "config"], [header |-> "Quarter", field |-> "quarter"], [header |-> "Amenity", field |-> "amenity"]>>,
    <<[header |-> "Price_Cr", field |-> "price"], [header |-> "status", field |-> "status"], [header |-> "Notes", field |-> "notes"]>>,
    <<[header |-> "Price", field |-> "price"], [header |-> "Carpet_Area_Sqft", field |-> "area"]>> }

\* Every header name some alias table knows, and one it does not.
RECURSIVE FlattenAliases(_, _)
FlattenAliases(mapping, i) ==
  IF i > Len(mapping) THEN <<>>
  ELSE mapping[i].aliases \o FlattenAliases(mapping, i + 1)

HeaderUniverse == FlattenAliases(loader_column_mapping, 1) \o <<"Notes">>

\* The header-only CSV files: 1..MaxCols names, in the order of the universe.
RECURSIVE Pick(_, _)
Pick(idx, from) ==
  IF from > Len(HeaderUniverse) THEN <<>>
  ELSE (IF from \in idx THEN <<HeaderUniverse[from]>> ELSE <<>>) \o Pick(idx, from + 1)

RECURSIVE IndexSets(_)
IndexSets(k) ==
  IF k = 0 THEN {{}}
  ELSE LET smaller == IndexSets(k - 1)
       IN  smaller \cup {s \cup {i} : s \in smaller, i \in DOMAIN HeaderUniverse}

HeaderFiles ==
  {[columns |-> Pick(idx, 1), rows |-> <<>>] : idx \in IndexSets(MaxCols) \ {{}}}

RECURSIVE RowSeqs(_)
RowSeqs(k) ==
  IF k = 0 THEN {<<>>}
  ELSE LET shorter == RowSeqs(k - 1)
       IN  shorter \cup {Append(rs, r) : rs \in {x \in shorter : Len(x) = k - 1}, r \in RowPool}

\* The file a schema and a sequence of pool rows make.
MakeFile(schema, rs) ==
  [columns |-> [i \in DOMAIN schema |-> schema[i].header],
   rows    |-> [j \in DOMAIN rs |->
                  [c \in {schema[i].header : i \in DOMAIN schema} |->
                     rs[j][schema[CHOOSE i \in DOMAIN schema : schema[i].header = c].field]]]]

DataFiles == {MakeFile(schema, rs) : schema \in Schemas, rs \in RowSeqs(MaxRows) \ {<<>>}}

InputFiles == HeaderFiles \cup DataFiles

\* The cells of a price column, and the CSV files with the one column Price
\* and 1..MaxPriceRows rows of them.
PriceCellTexts == { <<"1">>, <<"3">>, <<"5">>, <<>>, <<"b", "a", "d">> }

RECURSIVE CellSeqs(_)
CellSeqs(k) ==
  IF k = 0 THEN {<<>>}
  ELSE LET shorter == CellSeqs(k - 1)
       IN  shorter \cup {Append(cs, c) : cs \in {x \in shorter : Len(x) = k - 1},
                                         c \in PriceCellTexts}

PriceFiles ==
  {[columns |-> <<"Price">>, rows |-> [i \in DOMAIN cs |-> [c \in {"Price"} |-> cs[i]]]] :
     cs \in CellSeqs(MaxPriceRows) \ {<<>>}}

\* ----------------------------------------------------------- the machine
NoTable == [columns |-> <<>>, rows |-> <<>>]

\* HousingDataLoader.__init__: connection is None (0); no connection has
\* been made (connections are numbered 1, 2, ... as connect makes them) and
\* none is open.  table is what is committed in housing_data: the number
\* of rows earlier runs left there (old) and the rows of this load, by their
\* position in the data frame (loaded); txn is the open transaction of
\* self.connection: whether a DELETE is pending and the rows executed but
\* not committed.  rows is len(df), inserted_count the local of insert_data,
\* success what load_cleaned_data returned and failure where it failed.
NoTxn == [delete |-> FALSE, rows |-> <<>>]

NoConnection ==
  [connection |-> 0, opened |-> 0, open |-> {}, clear_existing |-> FALSE,
   table |-> [old |-> 0, loaded |-> <<>>], txn |-> NoTxn,
   rows |-> 0, inserted_count |-> 0, success |-> "none", failure |-> ""]

Init ==
  /\ pc = "new"
  /\ file = NoTable
  /\ df = NoTable
  /\ column_map = <<>>
  /\ cleaning_report = <<>>
  /\ step = 0
  /\ raised = <<>>
  /\ loader_map = <<>>
  /\ call = [fn |-> "none"]
  /\ db = NoConnection

\* HousingDataCleaner.__init__ up to the loop of clean_data, on one of the
\* given files: _load_data, _identify_columns, and the initial_shape entry
\* of the report.
ConstructOn(files) ==
  /\ pc = "new"
  /\ \E f \in files :
       LET d == ReadCsv(f)
       IN  /\ file' = f
           /\ df' = d
           /\ column_map' = BuildColumnMap(column_mapping, Cols(d))
           /\ cleaning_report' = ("initial_shape" :> Shape(d))
  /\ step' = 1
  /\ pc' = "cleaning"
  /\ UNCHANGED <<raised, loader_map, call, db>>

Construct == ConstructOn(InputFiles)

\* The constructor on a CSV that has the one column Price.
ConstructOnPrices == ConstructOn(PriceFiles)

\* The exceptions a stage can meet that do not come from the data.  The
\* stage operators compute the exceptions the data provokes; the price
\* stage has none of those, so the one the interpreter can raise in it (a
\* MemoryError at the copy of the price column, its first statement on a
\* bound column, before the table is touched) is drawn here.  "" is none.
MemoryErrorText == "MemoryError"
StageFaults(step_name, cmap) ==
  IF step_name = "price_cleaning" /\ GetColumn(cmap, "price") # ""
  THEN {"", MemoryErrorText} ELSE {""}

\* One iteration of the loop of clean_data; the last one goes on to the
\* final_shape entry that ends clean_data.
RunStep ==
  /\ pc = "cleaning"
  /\ \E fault \in StageFaults(cleaning_steps[step], column_map) :
     LET step_name == cleaning_steps[step]
         r         == IF fault = ""
                      THEN RunStage(step_name, df, column_map, cleaning_report)
                      ELSE [df |-> df, report |-> cleaning_report, err |-> fault]
         report1   == (step_name :> StepEntry(NRows(df), r)) @@ r.report
     IN  /\ df' = r.df
         /\ raised' = Append(raised, [step |-> step_name, err |-> r.err])
         /\ IF step = Len(cleaning_steps)
            THEN /\ cleaning_report' = ("final_shape" :> Shape(r.df)) @@ report1
                 /\ pc' = "done"
            ELSE /\ cleaning_report' = report1
                 /\ pc' = pc
  /\ step' = step + 1
  /\ UNCHANGED <<file, column_map, loader_map, call, db>>

\* HousingDataLoader.analyze_data_structure on the cleaned table, as
\* load_cleaned_data calls it on the file save_cleaned_data wrote.
AnalyzeDataStructure ==
  /\ pc = "done"
  /\ loader_map' = BuildColumnMap(loader_column_mapping, Cols(df))
  /\ pc' = "analyzed"
  /\ UNCHANGED <<file, df, column_map, cleaning_report, step, raised, call, db>>

\* The derived fields insert_data computes for one row, from the row's
\* configuration, price, purchase quarter and booking status.
DeriveFields ==
  /\ pc = "new"
  /\ \E c \in ConfigTexts, p \in PriceTexts, q \in QuarterTexts, b \in StatusTexts :
       LET configuration    == Str(c)
           ticket_price     == FloatN(ParseNumber(p).n)
           purchase_quarter == Str(q)
           booking_status   == Str(b)
           carpet_area      == calculate_carpet_area(configuration)
           qy               == extract_quarter_year(purchase_quarter)
       IN  call' = [fn               |-> "derive",
                    configuration    |-> c,
                    ticket_price     |-> ticket_price,
                    purchase_quarter |-> q,
                    booking_status   |-> b,
                    carpet_area      |-> carpet_area,
                    price_per_sqft   |-> calculate_price_per_sqft(ticket_price, carpet_area),
                    quarter_number   |-> qy[1],
                    year             |-> qy[2],
                    booking_flag     |-> calculate_booking_flag(booking_status),
                    price_category   |-> categorize_price(ticket_price),
                    season           |-> determine_season(qy[1])]
  /\ pc' = "derived"
  /\ UNCHANGED <<file, df, column_map, cleaning_report, step, raised, loader_map, db>>

Next ==
  \/ Construct
  \/ RunStep
  \/ AnalyzeDataStructure
  \/ DeriveFields

Spec == Init /\ [][Next]_vars

\* ------------------------------------------------- the loader's main
\* HousingDataLoader.connect.  mysql.connector.connect either returns a new
\* open connection, which replaces self.connection, or raises Error, and
\* self.connection becomes None.  Either way the connection self.connection
\* held is no longer referenced; nothing calls close() on it, and whether a
\* finalizer of the connector tears it down depends on the interpreter and
\* the connector build: reclaim is that choice.
ConnectOutcomes == {"connected", "error"}

Connect(d, outcome, reclaim) ==
  LET kept == IF reclaim THEN d.open \ {d.connection} ELSE d.open
  IN  IF outcome = "connected"
      THEN [d EXCEPT !.connection = d.opened + 1,
                     !.opened = d.opened + 1,
                     !.open = kept \cup {d.opened + 1}]
      ELSE [d EXCEPT !.connection = 0, !.open = kept]

MainInit ==
  /\ pc = "main"
  /\ file = NoTable
  /\ df = NoTable
  /\ column_map = <<>>
  /\ cleaning_report = <<>>
  /\ step = 0
  /\ raised = <<>>
  /\ loader_map = <<>>
  /\ call = [fn |-> "none"]
  /\ db = NoConnection

MainFrame == UNCHANGED <<file, df, column_map, cleaning_report, step, raised, loader_map, call>>

\* main up to the call of load_cleaned_data: a missing CSV returns from
\* inside the try (the finally clause runs); otherwise the answer to the
\* prompt is read.
MainStart ==
  /\ pc = "main"
  /\ \E exists \in BOOLEAN, answer \in BOOLEAN :
       IF exists
       THEN pc' = "m_load" /\ db' = [db EXCEPT !.clear_existing = answer]
       ELSE pc' = "m_finally" /\ db' = db
  /\ MainFrame

\* The batch of insert_data, and the lengths of the cleaned CSV: around
\* each batch boundary up to MaxBatches full batches.
BatchSize == 100

LoadSizes ==
  {b * BatchSize + r : b \in 0..MaxBatches, r \in {0, 1, BatchSize - 1}}

\* load_cleaned_data up to create_tables: pd.read_csv and
\* analyze_data_structure; an exception returns False.
LoadCsv ==
  /\ pc = "m_load"
  /\ \E ok \in BOOLEAN, n \in LoadSizes :
       IF ok
       THEN pc' = "m_create" /\ db' = [db EXCEPT !.rows = n]
       ELSE pc' = "m_finally" /\ db' = [db EXCEPT !.success = "False", !.failure = "read_csv"]
  /\ MainFrame

\* create_tables: connect, then the DDL; no connection or an Error of the
\* DDL returns False, and load_cleaned_data returns False.  CREATE TABLE IF
\* NOT EXISTS leaves an existing table with the rows it has.
CreateTables ==
  /\ pc = "m_create"
  /\ \E outcome \in ConnectOutcomes, reclaim \in BOOLEAN, ddl_ok \in BOOLEAN,
        existing \in 0..MaxExisting :
       LET d == Connect(db, outcome, reclaim)
       IN  IF outcome = "connected" /\ ddl_ok
           THEN /\ db' = [d EXCEPT !.table = [old |-> existing, loaded |-> <<>>],
                                   !.txn = NoTxn]
                /\ pc' = "m_insert"
           ELSE /\ db' = [d EXCEPT !.success = "False", !.failure = "create_tables"]
                /\ pc' = "m_finally"
  /\ MainFrame

\* connection.commit(): the pending statements of the transaction become
\* the table's content, the DELETE before the rows executed after it.
Commit(d) ==
  [d EXCEPT !.table = [old |-> IF d.txn.delete THEN 0 ELSE d.table.old,
                       loaded |-> (IF d.txn.delete THEN <<>> ELSE d.table.loaded)
                                    \o d.txn.rows],
            !.txn = NoTxn]

\* What load_cleaned_data returns from its except clause, or insert_data
\* from its own; nothing is rolled back.
Failed(d, where) == [d EXCEPT !.success = "False", !.failure = where]

StatementOutcomes == {"ok", "Error"}

\* The clear_existing block of load_cleaned_data, on the connection
\* create_tables made: DELETE, then commit; an exception of either goes to
\* the except clause, which returns False.
ClearExisting ==
  /\ pc = "m_insert"
  /\ IF db.clear_existing
     THEN \E delete \in StatementOutcomes, commit \in StatementOutcomes :
            LET d1 == [db EXCEPT !.txn.delete = TRUE]
            IN  IF delete = "Error"
                THEN db' = Failed(db, "delete") /\ pc' = "m_finally"
                ELSE IF commit = "Error"
                THEN db' = Failed(d1, "delete_commit") /\ pc' = "m_finally"
                ELSE db' = Commit(d1) /\ pc' = "m_rows"
     ELSE db' = db /\ pc' = "m_rows"
  /\ MainFrame

CommitEveryRow(inserted_count) == TRUE

\* if inserted_count % 100 == 0
CommitDue(inserted_count) == inserted_count % BatchSize = 0

\* What one iteration of the loop of insert_data can do: build the values
\* and execute the INSERT ("ok"), raise the connector's Error from execute
\* ("Error", caught by insert_data, which returns False), or raise another
\* exception while the values are built, as float() and the derivations
\* do on a text price ("raise", which leaves insert_data and is caught by
\* load_cleaned_data, which returns False).
RowOutcomes == {"ok", "Error", "raise"}

\* One iteration of the loop of insert_data, on the next row of
\* df.iterrows(): execute, count, and commit when the batch is full.
InsertRow ==
  /\ pc = "m_rows"
  /\ db.inserted_count < db.rows
  /\ \E outcome \in RowOutcomes, commit \in StatementOutcomes :
       LET index == db.inserted_count + 1
           d1 == [db EXCEPT !.txn.rows = Append(db.txn.rows, index),
                            !.inserted_count = index]
       IN  IF outcome = "Error"
           THEN db' = Failed(db, "execute") /\ pc' = "m_finally"
           ELSE IF outcome = "raise"
           THEN db' = Failed(db, "values") /\ pc' = "m_finally"
           ELSE IF ~CommitDue(index)
           THEN db' = d1 /\ pc' = "m_rows"
           ELSE IF commit = "Error"
           THEN db' = Failed(d1, "commit") /\ pc' = "m_finally"
           ELSE db' = Commit(d1) /\ pc' = "m_rows"
  /\ MainFrame

\* After the loop of insert_data: the final commit, and return True; an
\* Error of the commit returns False.
FinalCommit ==
  /\ pc = "m_rows"
  /\ db.inserted_count = db.rows
  /\ \E commit \in StatementOutcomes :
       IF commit = "Error"
       THEN db' = Failed(db, "commit") /\ pc' = "m_finally"
       ELSE db' = [Commit(db) EXCEPT !.success = "True"] /\ pc' = "m_summary"
  /\ MainFrame

\* pd.read_sql in execute_query: it returns, raises the connector's Error
\* (caught, None returned), or raises another exception, which goes up to
\* the except clause of main.
ReadSqlOutcomes == {"frame", "Error", "raise"}

\* get_data_summary: connect, then execute_query, which connects again.
GetDataSummary ==
  /\ pc = "m_summary"
  /\ \E o1 \in ConnectOutcomes, r1 \in BOOLEAN, o2 \in ConnectOutcomes, r2 \in BOOLEAN,
        read \in ReadSqlOutcomes :
       LET d1 == Connect(db, o1, r1)
           d2 == Connect(d1, o2, r2)
       IN  IF o1 # "connected" THEN db' = d1 /\ pc' = "m_sample"
           ELSE /\ db' = d2
                /\ pc' = IF o2 = "connected" /\ read = "raise"
                         THEN "m_finally" ELSE "m_sample"
  /\ MainFrame

\* execute_query for the sample rows; whatever it gives, main goes on to
\* its finally clause.
SampleQuery ==
  /\ pc = "m_sample"
  /\ \E outcome \in ConnectOutcomes, reclaim \in BOOLEAN :
       db' = Connect(db, outcome, reclaim)
  /\ pc' = "m_finally"
  /\ MainFrame

\* close_connection, from the finally clause of main: close() on
\* self.connection when it is set and connected; the server rolls back
\* what the connection had not committed.
CloseConnection ==
  /\ pc = "m_finally"
  /\ db' = IF db.connection # 0 /\ db.connection \in db.open
           THEN [db EXCEPT !.open = db.open \ {db.connection}, !.txn = NoTxn]
           ELSE db
  /\ pc' = "m_exit"
  /\ MainFrame

MainNext ==
  \/ MainStart
  \/ LoadCsv
  \/ CreateTables
  \/ ClearExisting
  \/ InsertRow
  \/ FinalCommit
  \/ GetDataSummary
  \/ SampleQuery
  \/ CloseConnection

MainSpec == MainInit /\ [][MainNext]_vars

\* The cleaner alone, on the price-only files.
PriceNext ==
  \/ ConstructOnPrices
  \/ RunStep

PriceSpec == Init /\ [][PriceNext]_vars

\* ---------------------------------------------------------------- claims
FiveStages ==
  {"price_cleaning", "missing_values", "text_normalization",
   "feature_engineering", "data_validation"}

FixedOrder ==
  <<"price_cleaning", "missing_values", "text_normalization",
    "feature_engineering", "data_validation">>

InPipeline == pc \in {"cleaning", "done", "analyzed"}
PipelineDone == pc \in {"done", "analyzed"}

\* C1: after every stage of clean_data, succeeded or raised, the Working
\* Table has as many rows as the loaded input; every rows_affected in the
\* report is 0 and final_shape has the row count of initial_shape.
C1_RowCountInvariant ==
  InPipeline =>
    /\ NRows(df) = Len(file.rows)
    /\ \A s \in FiveStages \cap DOMAIN cleaning_report :
         cleaning_report[s].rows_affected = 0
    /\ "final_shape" \in DOMAIN cleaning_report =>
         /\ cleaning_report["final_shape"][1] = cleaning_report["initial_shape"][1]
         /\ cleaning_report["final_shape"][1] = Len(file.rows)

\* C1 witness: a finished run over a file with rows and empty cells, in
\* which one stage returned and another raised.
C1_Witness ==
  /\ pc = "done"
  /\ Len(file.rows) >= 2
  /\ \E i \in 1..Len(file.rows), c \in Range(file.columns) : file.rows[i][c] = <<>>
  /\ \E i \in DOMAIN raised : raised[i].step = "missing_values" /\ raised[i].err # ""
  /\ \E i \in DOMAIN raised : raised[i].step = "price_cleaning" /\ raised[i].err = ""

\* C2: one call of clean_data runs the five stages once each in the fixed
\* order; a stage that raises gets the status 'failed: <error text>' and the
\* next stage still runs; a stage that returns gets 'success'; at the end
\* the report holds one entry per stage, initial_shape and final_shape
\* (beside the audit that validate_data stores under 'validation').
C2_StageOrderAndStatus ==
  /\ Len(raised) <= 5
  /\ \A i \in DOMAIN raised :
       /\ raised[i].step = FixedOrder[i]
       /\ raised[i].step \in DOMAIN cleaning_report
       /\ cleaning_report[raised[i].step].status =
            IF raised[i].err = "" THEN "success" ELSE "failed: " \o raised[i].err
  /\ pc = "cleaning" => Len(raised) < 5 /\ step = Len(raised) + 1
  /\ PipelineDone =>
       /\ Len(raised) = 5
       /\ DOMAIN cleaning_report =
            FiveStages \cup {"initial_shape", "final_shape", "validation"}

\* C2 witness: a finished run in which a stage raised and the stage after it
\* ran and returned.
C2_Witness ==
  /\ pc = "done"
  /\ \E i \in 1..4 :
       /\ raised[i].err # ""
       /\ raised[i + 1].err = ""
       /\ cleaning_report[FixedOrder[i + 1]].status = "success"

\* C3 (as claimed): validate_data never raises: in every run the
\* data_validation entry has status 'success' and the audit is stored under
\* 'validation'.
C3_ValidationSucceeds ==
  PipelineDone =>
    /\ "validation" \in DOMAIN cleaning_report
    /\ cleaning_report["data_validation"].status = "success"

DerivedColumns ==
  {"Carpet_Area_Sqft", "Price_per_Sqft", "Quarter_Number", "Year",
   "Price_Category", "Season", "Booking_Flag"}

\* C4 (as claimed): after a run over any input column set, zero rows and no
\* mapped field included, the Working Table has every derived column.
C4_AllDerivedColumns == PipelineDone => DerivedColumns \subseteq Cols(df)

\* What C5 asks of a Schema Map m built from the alias table over the
\* available columns.
IsEarliestAliasMap(m, mapping, available) ==
  /\ DOMAIN m \subseteq {mapping[i].name : i \in DOMAIN mapping}
  /\ \A i \in DOMAIN mapping :
       LET f  == mapping[i].name
           al == mapping[i].aliases
       IN  IF \E j \in DOMAIN al : al[j] \in available
           THEN /\ f \in DOMAIN m
                /\ m[f] \in available
                /\ \E j \in DOMAIN al :
                     /\ al[j] = m[f]
                     /\ \A k \in 1..(j - 1) : al[k] \notin available
           ELSE f \notin DOMAIN m
  /\ \A f \in DOMAIN m, g \in DOMAIN m : f # g => m[f] # m[g]

\* C5: the Schema Map of the cleaner (over the input columns) and of the
\* loader (over the columns of the cleaned table) binds each canonical field
\* to the earliest alias present, leaves a field with no alias present out,
\* and binds no column to two fields; being this one map, it is the same on
\* every run over the same columns.
C5_SchemaMapEarliestAlias ==
  /\ InPipeline => IsEarliestAliasMap(column_map, column_mapping, Range(file.columns))
  /\ pc = "analyzed" => IsEarliestAliasMap(loader_map, loader_column_mapping, Cols(df))

\* C5 witness: a file with two aliases of the price field, bound to the
\* earlier one by the cleaner; the loader, over the cleaned table, binds the
\* still earlier Ticket_Price_Cr the cleaner added.
C5_Witness ==
  /\ pc = "analyzed"
  /\ {"Price", "Price_Cr"} \subseteq Range(file.columns)
  /\ column_map["price"] = "Price"
  /\ loader_map["price"] = "Ticket_Price_Cr"

\* The label of the right-open bin holding a price n >= 0 (in 1/Scale crore).
RightOpenBin(n) ==
  IF n < 2 * Scale THEN price_labels[1]
  ELSE IF n < 5 * Scale THEN price_labels[2]
  ELSE IF n < 10 * Scale THEN price_labels[3]
  ELSE IF n < 20 * Scale THEN price_labels[4]
  ELSE price_labels[5]

\* C6 (as claimed): for every price p >= 0, the cleaner's Price_Category and
\* the loader's categorize_price(p) are the label of the right-open bin
\* holding p; 2, 5, 10 and 20 fall in the higher bin.
C6_RightOpenBins ==
  /\ pc = "derived" /\ call.ticket_price.n >= 0 =>
       call.price_category = RightOpenBin(call.ticket_price.n)
  /\ PipelineDone /\ "Price_Category" \in Cols(df) =>
       \A i \in 1..NRows(df) :
         LET p == df.rows[i]["Ticket_Price_Cr"]
         IN  IsNum(p) /\ p.n >= 0 => df.rows[i]["Price_Category"] = Str(RightOpenBin(p.n))

\* The quarter and year C7 states for a purchase-quarter text.
ClaimedQuarterYear(s) ==
  IF SearchQY(s) # <<>> THEN SearchQY(s)
  ELSE IF SearchYQ(s) # <<>> THEN SearchYQ(s)
  ELSE IF SearchYear(s) # <<>> THEN <<1, SearchYear(s)[1]>>
  ELSE <<1, 2023>>

\* C7 (as claimed): for every purchase-quarter text, the loader's
\* extract_quarter_year and the cleaner's Quarter_Number and Year give (q, y)
\* for 'Q<q>' with a 4-digit year in either order, else (1, y) for a bare
\* 4-digit year, else (1, 2023).
C7_QuarterYearParse ==
  /\ pc = "derived" =>
       <<call.quarter_number, call.year>> = ClaimedQuarterYear(call.purchase_quarter)
  /\ PipelineDone /\ {"Quarter_Number", "Year"} \subseteq Cols(df)
       /\ "purchase_quarter" \in DOMAIN column_map =>
       \A i \in 1..NRows(df) :
         LET text == df.rows[i][column_map["purchase_quarter"]]
         IN  text.k = "str" =>
               /\ df.rows[i]["Quarter_Number"].n = ClaimedQuarterYear(text.s)[1] * Scale
               /\ df.rows[i]["Year"].n = ClaimedQuarterYear(text.s)[2] * Scale

ClaimedBookedStatuses ==
  { <<"b","o","o","k","e","d">>, <<"c","o","n","f","i","r","m","e","d">>,
    <<"s","o","l","d">>, <<"y","e","s">>, <<"t","r","u","e">>, <<"1">> }

\* C8 (as claimed): for every booking-status text, the loader's
\* calculate_booking_flag and the cleaner's Booking_Flag are 1 exactly when
\* the lower-cased text is one of booked, confirmed, sold, yes, true, 1; a
\* missing booking-status column gives 0.
C8_BookingFlag ==
  /\ pc = "derived" =>
       call.booking_flag = IF Lower(call.booking_status) \in ClaimedBookedStatuses THEN 1 ELSE 0
  /\ PipelineDone /\ "Booking_Flag" \in Cols(df) =>
       \A i \in 1..NRows(df) :
         df.rows[i]["Booking_Flag"] =
           IF /\ "booking_status" \in DOMAIN column_map
              /\ Lower(AsStr(df.rows[i][column_map["booking_status"]])) \in ClaimedBookedStatuses
           THEN IntV(1) ELSE IntV(0)

\* The first entry of the area table, in table order, whose pattern occurs
\* in the upper-cased text; 1000 when none does.
FirstInTableOrder(s) ==
  LET hits == {i \in DOMAIN loader_area_map : Contains(Upper(s), loader_area_map[i].pattern)}
  IN  IF hits = {} THEN 1000
      ELSE loader_area_map[CHOOSE i \in hits : \A j \in hits : i <= j].area

StudyArea(n) == CASE n = 2 -> 1100 [] n = 3 -> 1400 [] n = 4 -> 1800

\* C9 (as claimed): calculate_carpet_area returns the +STUDY area (1100,
\* 1400, 1800) for every text containing '<n>BHK+STUDY' (n in 2, 3, 4),
\* 1250 for '3BHK', and 1000 for a text matching no pattern.
C9_StudyNotShadowed ==
  pc = "derived" =>
    /\ \A n \in 2..4 :
         Contains(Upper(call.configuration), T_STUDY(DigitChars[n + 1])) =>
           call.carpet_area = StudyArea(n)
    /\ call.configuration = <<"3", "B", "H", "K">> => call.carpet_area = 1250
    /\ (\A i \in DOMAIN loader_area_map :
          ~Contains(Upper(call.configuration), loader_area_map[i].pattern)) =>
         call.carpet_area = 1000

\* C10 (as claimed): for every configuration text, the loader's
\* calculate_carpet_area and the cleaner's Carpet_Area_Sqft are the area of
\* the first table entry whose pattern is a case-insensitive substring of
\* the text, and 1000 when the configuration is absent or matches nothing.
C10_FirstMatchInTableOrder ==
  /\ pc = "derived" => call.carpet_area = FirstInTableOrder(call.configuration)
  /\ PipelineDone /\ "Carpet_Area_Sqft" \in Cols(df) =>
       \A i \in 1..NRows(df) :
         df.rows[i]["Carpet_Area_Sqft"].n =
           IF "configuration" \in DOMAIN column_map
           THEN FirstInTableOrder(AsStr(df.rows[i][column_map["configuration"]])) * Scale
           ELSE 1000 * Scale

\* The values of a sequence of numbers in ascending order.
RECURSIVE SortedNums(_)
SortedNums(ns) ==
  IF ns = <<>> THEN <<>>
  ELSE LET i == CHOOSE i \in DOMAIN ns : \A j \in DOMAIN ns : ns[i] <= ns[j]
       IN  <<ns[i]>> \o SortedNums(SubSeq(ns, 1, i - 1) \o SubSeq(ns, i + 1, Len(ns)))

\* The middle of a non-empty sequence of numbers: the middle value in
\* ascending order, or the mean of the two middle values.
MiddleOf(ns) ==
  LET s == SortedNums(ns)
      n == Len(s)
  IN  IF n % 2 = 1 THEN s[(n + 1) \div 2] ELSE (s[n \div 2] + s[n \div 2 + 1]) \div 2

\* The price cells of the input as the price stage parses them (NaN for a
\* cell that is empty or does not parse).
ParsedPrices ==
  LET loaded == ReadCsv(file)
  IN  [i \in 1..Len(file.rows) |->
         ParseNumber(CleanPriceText(AsStr(loaded.rows[i][column_map["price"]])))]

RECURSIVE NumsOf(_)
NumsOf(cells) ==
  IF cells = <<>> THEN <<>>
  ELSE (IF IsNum(Head(cells)) THEN <<Head(cells).n>> ELSE <<>>) \o NumsOf(Tail(cells))

AfterPriceStage ==
  /\ pc = "cleaning"
  /\ step = 2
  /\ raised[1].err = ""
  /\ "price" \in DOMAIN column_map

\* C11: after clean_price_column on a price column in which at least one
\* value parses, every entry that was null or failed to parse equals the
\* median of the parsed values of the column, and every entry that parsed
\* keeps its parsed value.
C11_MedianFill ==
  AfterPriceStage /\ NumsOf(ParsedPrices) # <<>> =>
    \A i \in 1..NRows(df) :
      LET cell == df.rows[i][column_map["price"]]
      IN  /\ IsNum(cell)
          /\ cell.n = IF IsNum(ParsedPrices[i]) THEN ParsedPrices[i].n
                      ELSE MiddleOf(NumsOf(ParsedPrices))

\* C11 witness: the price column [1, 3, null, 5] after the price stage, its
\* null filled with 3.
C11_Witness ==
  /\ AfterPriceStage
  /\ [i \in 1..Len(file.rows) |-> file.rows[i]["Price"]] = << <<"1">>, <<"3">>, <<>>, <<"5">> >>
  /\ df.rows[3]["Price"].n = 3 * Scale
  /\ df.rows[4]["Price"].n = 5 * Scale

\* The table the missing_values stage starts from: the loaded table as the
\* price stage left it.
BeforeMissingValues ==
  IF raised[1].err = "" THEN clean_price_column(ReadCsv(file), column_map).df
  ELSE ReadCsv(file)

\* The canonical field a column is bound to, "" for an unbound column.
FieldOf(c) ==
  IF c \in Range(column_map) THEN CHOOSE f \in DOMAIN column_map : column_map[f] = c ELSE ""

NotBookedCell == Str(<<"N", "o", "t", " ", "B", "o", "o", "k", "e", "d">>)
UnknownCell == Str(<<"U", "n", "k", "n", "o", "w", "n">>)

\* What C12 prescribes for the cell a null of a column with the cells vals,
\* bound to field (or unbound), has become.
IsPrescribedFill(field, vals, cell) ==
  LET present  == {i \in DOMAIN vals : ~IsNull(vals[i])}
      Freq(i)  == Cardinality({j \in present : vals[j] = vals[i]})
      numeric  == \A i \in present : IsNum(vals[i])
      IsMedian == /\ IsNum(cell)
                  /\ NumsOf(vals) # <<>> => cell.n = MiddleOf(NumsOf(vals))
  IN  /\ ~IsNull(cell)
      /\ CASE field \in {"price", "amenity"} -> IsMedian
           [] field = "booking_status" -> cell = NotBookedCell
           [] field = "" -> IF numeric THEN IsMedian ELSE cell = UnknownCell
           [] OTHER -> IF present = {} THEN cell = UnknownCell
                       ELSE \E i \in present :
                              /\ cell = vals[i]
                              /\ \A j \in present : Freq(j) <= Freq(i)

\* C12 (as claimed): handle_missing_values changes no non-null entry and
\* replaces every null entry by the value its field kind prescribes: the
\* median for price and amenity, 'Not Booked' for booking_status, one single
\* most-frequent value (or 'Unknown' for an all-null column) for the other
\* bound columns, the median or 'Unknown' for unbound columns.
C12_ImputationByKind ==
  pc = "cleaning" /\ step = 3 =>
    \A c \in Cols(BeforeMissingValues) :
      LET vals == ColVals(BeforeMissingValues, c)
      IN  /\ \A i \in 1..NRows(df) :
               IF IsNull(vals[i])
               THEN IsPrescribedFill(FieldOf(c), vals, df.rows[i][c])
               ELSE df.rows[i][c] = vals[i]
          /\ \A i \in 1..NRows(df), j \in 1..NRows(df) :
               IsNull(vals[i]) /\ IsNull(vals[j]) => df.rows[i][c] = df.rows[j][c]

\* C13 (as claimed): in every run in which the missing_values stage reports
\* 'success', the audit finds no null in the final Working Table: the
\* recorded remaining_nulls is empty.
C13_NoRemainingNulls ==
  PipelineDone /\ cleaning_report["missing_values"].status = "success" =>
    /\ DOMAIN cleaning_report["validation"].remaining_nulls = {}
    /\ \A c \in Cols(df) : NullCount(df, c) = 0

\* C14 (as claimed): a row whose purchase-quarter cell is empty in the input
\* ends with Quarter_Number 1 and Year 2023, whatever the other rows of the
\* column hold; a row whose booking-status cell is empty ends with
\* Booking_Flag 0.
C14_NullQuarterDefaults ==
  PipelineDone =>
    /\ "purchase_quarter" \in DOMAIN column_map
         /\ {"Quarter_Number", "Year"} \subseteq Cols(df) =>
         \A i \in 1..NRows(df) :
           file.rows[i][column_map["purchase_quarter"]] = <<>> =>
             /\ df.rows[i]["Quarter_Number"].n = 1 * Scale
             /\ df.rows[i]["Year"].n = 2023 * Scale
    /\ "booking_status" \in DOMAIN column_map /\ "Booking_Flag" \in Cols(df) =>
         \A i \in 1..NRows(df) :
           file.rows[i][column_map["booking_status"]] = <<>> =>
             df.rows[i]["Booking_Flag"].n = 0

\* C15 (as claimed): Price_per_Sqft is price x 10,000,000 / Carpet_Area_Sqft
\* (kept to the whole rupee) when the area is above 0 and 0 when it is not,
\* in the loader's calculate_price_per_sqft and in the cleaner's table, a
\* table that came with its own Carpet_Area_Sqft column included.
C15_GuardedDivision ==
  /\ pc = "derived" =>
       call.price_per_sqft =
         IF call.carpet_area > 0
         THEN FloatN((Rupees(call.ticket_price) \div call.carpet_area) * Scale)
         ELSE FloatN(0)
  /\ PipelineDone /\ "Price_per_Sqft" \in Cols(df) =>
       \A i \in 1..NRows(df) :
         LET p == df.rows[i]["Ticket_Price_Cr"]
             a == df.rows[i]["Carpet_Area_Sqft"]
         IN  IsNum(p) /\ IsNum(a) =>
               df.rows[i]["Price_per_Sqft"] =
                 IF a.n > 0 THEN FloatN(MulDiv(Rupees(p), Scale, a.n) * Scale)
                 ELSE FloatN(0)

\* C16 (as claimed): every quarter the cleaner writes to Quarter_Number and
\* every quarter the loader's extract_quarter_year returns is one of 1, 2,
\* 3, 4.
C16_QuarterInRange ==
  /\ pc = "derived" => call.quarter_number \in 1..4
  /\ PipelineDone /\ "Quarter_Number" \in Cols(df) =>
       \A i \in 1..NRows(df) :
         df.rows[i]["Quarter_Number"].n \in {q * Scale : q \in 1..4}

\* C17 (as claimed): when clean_price_column raises, the pipeline does not
\* go on to run feature_engineering.
C17_PriceFailureEscalated ==
  \A i \in DOMAIN raised :
    raised[1].err # "" => raised[i].step # "feature_engineering"

\* A run on a file with rows whose bound price column has no cell that
\* parses, past its price stage.
NoPriceParses ==
  /\ InPipeline
  /\ step >= 2
  /\ "price" \in DOMAIN column_map
  /\ Len(file.rows) >= 1
  /\ NumsOf(ParsedPrices) = <<>>

\* C18 (as claimed): when no value of the bound price column parses, the
\* price_cleaning entry of the report is not 'success', and no stage of the
\* run writes a number into the price column.
C18_UnparseableColumnReported ==
  NoPriceParses =>
    /\ cleaning_report["price_cleaning"].status # "success"
    /\ \A i \in 1..NRows(df) : ~IsNum(df.rows[i][column_map["price"]])

\* C19 (as claimed): when the bound price column is not named
\* Ticket_Price_Cr, at the end of clean_data the column original_<name>
\* holds the raw price cells as loaded, nulls included, and Ticket_Price_Cr
\* holds the normalized values of the price column.
C19_OriginalPreserved ==
  PipelineDone /\ "price" \in DOMAIN column_map /\ raised[1].err = ""
    /\ column_map["price"] # "Ticket_Price_Cr" =>
    LET name == column_map["price"]
    IN  /\ {"original_" \o name, "Ticket_Price_Cr"} \subseteq Cols(df)
        /\ \A i \in 1..NRows(df) :
             /\ df.rows[i]["original_" \o name] = ReadCsv(file).rows[i][name]
             /\ df.rows[i]["Ticket_Price_Cr"] =
                  clean_price_column(ReadCsv(file), column_map).df.rows[i][name]

\* C20 (as claimed): on every exit path of the loader's main, after the
\* final close_connection no connection that connect opened is open.
C20_NoOpenConnectionAtExit ==
  pc = "m_exit" => db.open = {}

\* The rows of this load committed in housing_data.
Committed == db.table.loaded

CommittedPrefix ==
  /\ Len(Committed) <= db.rows
  /\ \A i \in 1..Len(Committed) : Committed[i] = i
  /\ Len(Committed) % BatchSize = 0 \/ Len(Committed) = db.rows
  /\ db.success = "True" => Len(Committed) = db.rows /\ db.txn = NoTxn

LastBoundary(k) == BatchSize * ((k - 1) \div BatchSize)

InsertFailed == db.success = "False" /\ db.failure \in {"execute", "values"}

FailureLeavesBatches ==
  InsertFailed =>
    LET k == db.inserted_count + 1
    IN  /\ Len(Committed) = LastBoundary(k)
        /\ db.clear_existing => db.table.old = 0 /\ ~db.txn.delete
        /\ pc = "m_finally" =>
              db.txn.rows = [j \in 1..(k - 1 - LastBoundary(k)) |-> LastBoundary(k) + j]

CommitOnlyAtBoundary ==
  db'.table.loaded # db.table.loaded =>
    /\ pc = "m_rows"
    /\ \/ db'.inserted_count = db.inserted_count + 1
             /\ db'.inserted_count % BatchSize = 0
       \/ db.inserted_count = db.rows /\ db'.success = "True"

\* C21: during insert_data a commit happens only after every 100th inserted
\* row and once after the last row; at every moment the committed rows of
\* the load are a prefix of the input rows, in input order, whose length is
\* a multiple of 100 or the full row count; and when the insert of row k
\* fails, the load returns False with the rows after the last batch
\* boundary uncommitted, the earlier batches committed, and the DELETE of
\* clear_existing committed.
C21_BatchedCommits ==
  [](CommittedPrefix /\ FailureLeavesBatches) /\ [][CommitOnlyAtBoundary]_vars

C21_Witness ==
  /\ pc = "m_finally"
  /\ db.success = "False" /\ db.failure = "execute"
  /\ db.clear_existing
  /\ db.inserted_count > BatchSize /\ db.inserted_count % BatchSize # 0
  /\ Len(db.table.loaded) = BatchSize
  /\ Len(db.txn.rows) > 0

====
